---- MODULE Spec2Model ----
(***************************************************************************)
(* Makita Spare Parts Finder (src/app.py): a Streamlit page.  Every user   *)
(* interaction re-runs the whole script against the session state, so one  *)
(* action of this model is one complete script run (sidebar, load, Spare   *)
(* List tab, Request List tab), including a trailing st.rerun().           *)
(*                                                                         *)
(* Text is modelled as a sequence of one-character strings so that         *)
(* lower-casing, stripping, containment and prefix tests are computed.     *)
(* Prices are whole currency units.                                        *)
(***************************************************************************)
EXTENDS Integers, Sequences, FiniteSets, TLC

\* Largest request list explored (Add to List / editor row insertion stop there).
MaxCart == 2

-----------------------------------------------------------------------------
(* Text helpers: Python str methods and the regular expressions of app.py   *)

LowerChars == <<"a","b","c","d","e","f","g","h","i","j","k","l","m",
                "n","o","p","q","r","s","t","u","v","w","x","y","z">>
DigitChars == <<"0","1","2","3","4","5","6","7","8","9">>

\* one character of str.lower()
LowerChar(c) ==
    CASE c = "A" -> "a"
      [] c = "B" -> "b"
      [] c = "C" -> "c"
      [] c = "D" -> "d"
      [] c = "E" -> "e"
      [] c = "F" -> "f"
      [] c = "G" -> "g"
      [] c = "H" -> "h"
      [] c = "I" -> "i"
      [] c = "J" -> "j"
      [] c = "K" -> "k"
      [] c = "L" -> "l"
      [] c = "M" -> "m"
      [] c = "N" -> "n"
      [] c = "O" -> "o"
      [] c = "P" -> "p"
      [] c = "Q" -> "q"
      [] c = "R" -> "r"
      [] c = "S" -> "s"
      [] c = "T" -> "t"
      [] c = "U" -> "u"
      [] c = "V" -> "v"
      [] c = "W" -> "w"
      [] c = "X" -> "x"
      [] c = "Y" -> "y"
      [] c = "Z" -> "z"
      [] OTHER -> c

\* str.lower()
Lower(s) == [i \in DOMAIN s |-> LowerChar(s[i])]

IsAlnumLower(c) ==
    \/ \E i \in DOMAIN LowerChars : LowerChars[i] = c
    \/ \E i \in DOMAIN DigitChars : DigitChars[i] = c

IsSpace(c) == c = " "

\* str.strip(): drop the blanks before the first and after the last non-blank
Strip(s) ==
    IF \A i \in DOMAIN s : IsSpace(s[i]) THEN <<>>
    ELSE SubSeq(s,
                CHOOSE i \in DOMAIN s :
                    ~IsSpace(s[i]) /\ \A j \in 1 .. i - 1 : IsSpace(s[j]),
                CHOOSE i \in DOMAIN s :
                    ~IsSpace(s[i]) /\ \A j \in i + 1 .. Len(s) : IsSpace(s[j]))

\* re.sub(r"[^a-z0-9]", "", s): keep only lower-case letters and digits
KeepAlnum(s) == SelectSeq(s, IsAlnumLower)

\* _norm(s)
Norm(s) == KeepAlnum(Lower(Strip(s)))

\* s.startswith(p)
StartsWith(s, p) == Len(p) <= Len(s) /\ SubSeq(s, 1, Len(p)) = p

\* positions at which p occurs in s
Occurrences(s, p) ==
    {i \in 1 .. Len(s) - Len(p) + 1 : SubSeq(s, i, i + Len(p) - 1) = p}

\* s.find(p) + 1: the first position at which p occurs in s, 0 when none
Find(s, p) ==
    IF Occurrences(s, p) = {} THEN 0
    ELSE CHOOSE i \in Occurrences(s, p) : \A j \in Occurrences(s, p) : i <= j

\* Series.str.contains(re.escape(p), case=False, na=False) on one cell
ContainsCI(s, p) ==
    \E ls \in {Lower(s)}, lp \in {Lower(p)} : Occurrences(ls, lp) # {}

\* Series.str.match("^" + re.escape(p), case=False, na=False) on one cell
MatchPrefixCI(s, p) ==
    \E ls \in {Lower(s)}, lp \in {Lower(p)} : StartsWith(ls, lp)

Separator == <<" ", "-", " ">>

\* " - " in q
HasSeparator(q) == Occurrences(q, Separator) # {}

\* q.split(" - ", 1)
SplitOnce(q) ==
    <<SubSeq(q, 1, Find(q, Separator) - 1),
      SubSeq(q, Find(q, Separator) + Len(Separator), Len(q))>>

-----------------------------------------------------------------------------
(* 4.1 Column Resolver                                                      *)

Keys == <<"model", "material_description", "shrm", "home", "stock",
          "used_spares", "price">>

CANDIDATES(key) ==
    CASE key = "model" ->
        << <<"m","o","d","e","l">>,
           <<"p","a","r","t","n","o">>,
           <<"p","a","r","t","n","u","m","b","e","r">>,
           <<"i","t","e","m","c","o","d","e">>,
           <<"m","a","t","e","r","i","a","l">> >>
    [] key = "material_description" ->
        << <<"m","a","t","e","r","i","a","l","d","e","s","c","r","i","p","t","i","o","n">>,
           <<"d","e","s","c","r","i","p","t","i","o","n">>,
           <<"d","e","s","c">>,
           <<"i","t","e","m","d","e","s","c">>,
           <<"m","a","t","e","r","i","a","l","d","e","s","c">> >>
    [] key = "shrm" ->
        << <<"s","h","r","m">>,
           <<"s","h","o","w","r","o","o","m">> >>
    [] key = "home" ->
        << <<"h","o","m","e">>,
           <<"g","o","d","o","w","n">>,
           <<"w","a","r","e","h","o","u","s","e">> >>
    [] key = "stock" ->
        << <<"s","t","o","c","k">>,
           <<"q","t","y">>,
           <<"q","u","a","n","t","i","t","y">>,
           <<"o","n","h","a","n","d">> >>
    [] key = "used_spares" ->
        << <<"u","s","e","d","s","p","a","r","e","s">>,
           <<"u","s","e","d"," ","s","p","a","r","e","s">>,
           <<"u","s","e","d">> >>
    [] key = "price" ->
        << <<"p","r","i","c","e">>,
           <<"u","n","i","t","p","r","i","c","e">>,
           <<"c","o","s","t">>,
           <<"s","a","l","e","s","p","r","i","c","e">> >>

\* the keys of norm_to_actual: _norm(c) for each column c, in column order
NormHeaders(headers) == [i \in DOMAIN headers |-> Norm(headers[i])]

\* norm_to_actual[n] as a column position: the LAST header whose normal form
\* is n (a dict comprehension overwrites), 0 when n is not a key
NormToActual(nh, n) ==
    LET found == {i \in DOMAIN nh : nh[i] = n}
    IN  IF found = {} THEN 0
        ELSE CHOOSE i \in found : \A j \in found : j <= i

\* "for opt in options: ... break": the column of the first alias that is a
\* key of norm_to_actual, 0 when none is
FirstAlias(nh, opts) ==
    IF \A a \in DOMAIN opts : NormToActual(nh, Norm(opts[a])) = 0 THEN 0
    ELSE NormToActual(nh, Norm(opts[
            CHOOSE a \in DOMAIN opts :
                /\ NormToActual(nh, Norm(opts[a])) # 0
                /\ \A b \in 1 .. a - 1 : NormToActual(nh, Norm(opts[b])) = 0]))

ResolveWith(headers, nh) ==
    UNION { {<<Keys[k], headers[col[k]]>> : k \in {j \in DOMAIN Keys : col[j] # 0}} :
            col \in {[k \in DOMAIN Keys |-> FirstAlias(nh, CANDIDATES(Keys[k]))]} }

\* colmap before the mandatory-column test, as a set of <<key, actual header>>
ResolveColumns(headers) ==
    UNION {ResolveWith(headers, nh) : nh \in {NormHeaders(headers)}}

\* key in colmap
InMap(cm, key) == \E e \in cm : e[1] = key
\* colmap[key]
ColOf(cm, key) == (CHOOSE e \in cm : e[1] = key)[2]

\* the test before "raise ValueError" in build_column_map
MissingRequired(cm) == ~InMap(cm, "model") \/ ~InMap(cm, "material_description")

\* build_column_map raises ValueError
SchemaError(headers) == \E cm \in {ResolveColumns(headers)} : MissingRequired(cm)

-----------------------------------------------------------------------------
(* 4.2 Row Normalizer                                                       *)

\* A spreadsheet cell: blank (NaN), text, or a whole number
NaN    == [k |-> "nan", s |-> <<>>, v |-> 0]
Txt(s) == [k |-> "txt", s |-> s,    v |-> 0]
Num(v) == [k |-> "num", s |-> <<>>, v |-> v]

DigitVal(c) == (CHOOSE i \in DOMAIN DigitChars : DigitChars[i] = c) - 1
IsDigit(c)  == \E i \in DOMAIN DigitChars : DigitChars[i] = c

RECURSIVE DigitsVal(_, _)
DigitsVal(s, n) ==
    IF n = 0 THEN 0 ELSE 10 * DigitsVal(s, n - 1) + DigitVal(s[n])

RECURSIVE NatToStr(_)
NatToStr(n) ==
    IF n < 10 THEN <<DigitChars[n + 1]>>
    ELSE NatToStr(n \div 10) \o <<DigitChars[(n % 10) + 1]>>

\* str(val) of a cell
ToStr(c) ==
    CASE c.k = "nan" -> <<"n","a","n">>
      [] c.k = "txt" -> c.s
      [] c.k = "num" -> IF c.v < 0 THEN <<"-">> \o NatToStr(-c.v) ELSE NatToStr(c.v)

\* float(s) succeeds: optional sign and digits (the numerals of the explored sheets)
IsNumeral(s) ==
    LET body == IF s # <<>> /\ Head(s) = "-" THEN Tail(s) ELSE s
    IN  body # <<>> /\ \A i \in DOMAIN body : IsDigit(body[i])

NumeralVal(s) ==
    IF Head(s) = "-" THEN -DigitsVal(Tail(s), Len(s) - 1) ELSE DigitsVal(s, Len(s))

NotComma(c) == c # ","

\* s.replace(",", "")
DropCommas(s) == SelectSeq(s, NotComma)

\* float(t) of a text, 0 standing for the except branch
FloatOrZero(t) == IF IsNumeral(t) THEN NumeralVal(t) ELSE 0

to_int(val) ==
    IF val.k = "nan" THEN 0
    ELSE CHOOSE n \in {FloatOrZero(t) : t \in {Strip(ToStr(val))}} : TRUE

\* float() itself ignores blanks around the numeral
to_float(val) ==
    IF val.k = "nan" THEN 0
    ELSE CHOOSE n \in {FloatOrZero(t) : t \in {Strip(DropCommas(Strip(ToStr(val))))}} : TRUE

NA == <<"N","-","A">>

\* Series.fillna("N-A") on one cell
FillNA(c) == IF c.k = "nan" THEN Txt(NA) ELSE c

\* Series.astype(str).replace("nan", "N-A") on one cell
StrReplaceNan(c) == IF ToStr(c) = <<"n","a","n">> THEN NA ELSE ToStr(c)

ColIndex(headers, name) == CHOOSE i \in DOMAIN headers : headers[i] = name

\* col_series(key, default) at row r
col_series(sheet, cm, key, default, r) ==
    IF InMap(cm, key) THEN sheet.rows[r][ColIndex(sheet.headers, ColOf(cm, key))]
    ELSE default

\* the default shrm/home cell handed to col_series when the column is absent
AbsentText == Txt(<<>>)

build_app_df(sheet, cm) ==
    [r \in DOMAIN sheet.rows |->
        [model                |-> ToStr(col_series(sheet, cm, "model", Txt(<<>>), r)),
         material_description |-> ToStr(col_series(sheet, cm, "material_description", Txt(<<>>), r)),
         shrm        |-> StrReplaceNan(FillNA(col_series(sheet, cm, "shrm", AbsentText, r))),
         home        |-> StrReplaceNan(FillNA(col_series(sheet, cm, "home", AbsentText, r))),
         stock       |-> IF InMap(cm, "stock")
                         THEN to_int(col_series(sheet, cm, "stock", Num(0), r)) ELSE 0,
         used_spares |-> IF InMap(cm, "used_spares")
                         THEN to_int(col_series(sheet, cm, "used_spares", Num(0), r)) ELSE 0,
         price       |-> to_float(col_series(sheet, cm, "price", Num(0), r))]]

-----------------------------------------------------------------------------
(* Spreadsheets an admin can put at MASTER_FILE                             *)

FileNames == {"full", "minimal", "nodesc"}

Sheet(f) ==
    CASE f = "full" ->
        [headers |-> << <<"M","o","d","e","l">>,
                        <<"D","e","s","c","r","i","p","t","i","o","n">>,
                        <<"S","H","R","M">>,
                        <<"H","o","m","e">>,
                        <<"S","t","o","c","k">>,
                        <<"U","s","e","d"," ","S","p","a","r","e","s">>,
                        <<" ","p","r","i","c","e"," ">> >>,
         rows |-> << << Txt(<<"M","1","0","0">>), Txt(<<"B","l","a","d","e">>),
                        Txt(<<"3">>), Txt(<<"2">>), Txt(<<" ","4"," ">>), Num(1), Num(12) >>,
                     << Txt(<<"M","1","0","1">>), Txt(<<"G","u","a","r","d">>),
                        NaN, Txt(<<"n","a","n">>), Txt(<<"x","7">>), NaN,
                        Txt(<<"1",",","0","0","0">>) >> >>]
    [] f = "minimal" ->
        [headers |-> << <<"N","o","t","e">>,
                        <<"P","a","r","t"," ","N","o",".">>,
                        <<"D","E","S","C">> >>,
         rows |-> << << NaN, Txt(<<"M","1","0","0">>), Txt(<<"B","l","a","d","e">>) >>,
                     << Txt(<<"x">>), Txt(<<"B","7">>), Txt(<<"B","o","l","t">>) >> >>]
    [] f = "nodesc" ->
        [headers |-> << <<"M","o","d","e","l">>, <<"P","r","i","c","e">> >>,
         rows |-> << << Txt(<<"M","1","0","0">>), Num(12) >> >>]

-----------------------------------------------------------------------------
(* 4.3 Search / Match Engine                                                *)

\* df[mask]: the rows whose mask entry is True, in table order
SelectRows(rows, mask) ==
    CHOOSE r \in UNION { { [k \in 1 .. Cardinality(keep) |->
                rows[CHOOSE i \in keep : Cardinality({j \in keep : j <= i}) = k]] } :
            keep \in {{i \in DOMAIN rows : mask[i]}} } : TRUE

\* Variant of FilterHit: the model test is the prefix match of the add handler
FilterHitPrefix(rec, q) ==
    IF HasSeparator(q)
    THEN /\ ContainsCI(rec.model, SplitOnce(q)[1])
         /\ ContainsCI(rec.material_description, SplitOnce(q)[2])
    ELSE \/ MatchPrefixCI(rec.model, q)
         \/ ContainsCI(rec.material_description, q)

\* the live-filter test of one row (Spare List tab, "if search_value:")
FilterHit(rec, q) ==
    IF HasSeparator(q)
    THEN /\ ContainsCI(rec.model, SplitOnce(q)[1])
         /\ ContainsCI(rec.material_description, SplitOnce(q)[2])
    ELSE \/ ContainsCI(rec.model, q)
         \/ ContainsCI(rec.material_description, q)

\* spare_filtered
LiveFilter(rows, q) ==
    SelectRows(rows, [i \in DOMAIN rows |-> FilterHit(rows[i], q)])

\* the add-to-list test of one row ("if add_button and search_value:")
AddHit(rec, q) ==
    IF HasSeparator(q)
    THEN /\ ContainsCI(rec.model, SplitOnce(q)[1])
         /\ ContainsCI(rec.material_description, SplitOnce(q)[2])
    ELSE \/ MatchPrefixCI(rec.model, q)
         \/ ContainsCI(rec.material_description, q)

\* hits
AddHits(rows, q) ==
    SelectRows(rows, [i \in DOMAIN rows |-> AddHit(rows[i], q)])

-----------------------------------------------------------------------------
(* 4.4 Request Cart                                                         *)

\* the dict appended by add_request_row; "missing" is FALSE for every line
\* that comes from a stock row
RequestLine(rec) ==
    [model |-> rec.model, material_description |-> rec.material_description,
     shrm |-> rec.shrm, home |-> rec.home, stock |-> rec.stock,
     used_spares |-> rec.used_spares, price |-> rec.price,
     qty |-> 1, missing |-> FALSE]

add_request_row(cart, rec) == Append(cart, RequestLine(rec))

\* The row st.data_editor(num_rows="dynamic") appends when the user adds a
\* row: every cell is empty (None / NaN), marked by missing = TRUE; its Qty
\* cell is empty too until fillna(0).
BlankLine ==
    [model |-> <<>>, material_description |-> <<>>, shrm |-> <<>>, home |-> <<>>,
     stock |-> 0, used_spares |-> 0, price |-> 0, qty |-> 0, missing |-> TRUE]

HasMissing(cart) == \E i \in DOMAIN cart : cart[i].missing

\* req_df: qty below 0 becomes 0 (fillna(1) finds nothing to fill: every
\* stored qty is an integer)
ReqDf(cart) ==
    [i \in DOMAIN cart |-> [cart[i] EXCEPT !.qty = IF @ < 0 THEN 0 ELSE @]]

\* A change made on the Request List screen
NoEdit == [kind |-> "none", i |-> 0, q |-> 0]

\* Variant of QtyInputs: the Qty controls are created without min_value
QtyInputsNoMin == {-1, 0, 1, 3}

\* quantities typed into a Qty control; number_input(min_value=0) and
\* NumberColumn(min_value=0) deliver none below 0
QtyInputs == {0, 1, 3}

\* card path: value of number_input key=qty_<idx> (1-based i here)
QtyWidget(req, ed, i) ==
    IF ed.kind = "qty" /\ ed.i = i THEN ed.q ELSE req[i].qty

\* card path: updated_rows
CardUpdatedRows(req, ed) ==
    [i \in DOMAIN req |-> [req[i] EXCEPT !.qty = QtyWidget(req, ed, i)]]

RECURSIVE SumQty(_)
SumQty(cart) == IF cart = <<>> THEN 0 ELSE Head(cart).qty + SumQty(Tail(cart))

RECURSIVE SumAmount(_)
SumAmount(cart) ==
    IF cart = <<>> THEN 0
    ELSE Head(cart).price * Head(cart).qty + SumAmount(Tail(cart))

NoTotals == [shown |-> FALSE, items |-> 0, qty |-> 0, amount |-> 0]

RECURSIVE SumPrice(_)
SumPrice(cart) == IF cart = <<>> THEN 0 ELSE Head(cart).price + SumPrice(Tail(cart))

\* Variant of CardTotals: total_amount adds the prices without the quantities
CardTotalsNoQty(updated_rows) ==
    [shown |-> TRUE, items |-> Len(updated_rows), qty |-> SumQty(updated_rows),
     amount |-> SumPrice(updated_rows)]

\* card path: total_items, total_qty, total_amount from updated_rows
CardTotals(updated_rows) ==
    [shown |-> TRUE, items |-> Len(updated_rows), qty |-> SumQty(updated_rows),
     amount |-> SumAmount(updated_rows)]

\* table path: what st.data_editor returns for req_df and the user's change;
\* a fresh editor (no change) returns its input
RemoveAt(seq, i) == SubSeq(seq, 1, i - 1) \o SubSeq(seq, i + 1, Len(seq))

EditorResult(req, ed) ==
    CASE ed.kind = "qty"    -> [req EXCEPT ![ed.i].qty = ed.q]
      [] ed.kind = "blank"  -> [req EXCEPT ![ed.i].qty = 0]
      [] ed.kind = "insert" -> Append(req, BlankLine)
      [] ed.kind = "delete" -> RemoveAt(req, ed.i)
      [] OTHER              -> req

\* table path: edited_df after qty.fillna(0).astype(int) and line_total
EditedDf(req, ed) ==
    LET e == EditorResult(req, ed)
    IN  [i \in DOMAIN e |->
            [line |-> e[i], line_total |-> e[i].price * e[i].qty]]

\* table path: new_rows = edited_df.drop(columns=["line_total"]).to_dict("records")
NewRows(edited) == [i \in DOMAIN edited |-> edited[i].line]

RECURSIVE SumLineTotal(_)
SumLineTotal(edited) ==
    IF edited = <<>> THEN 0
    ELSE Head(edited).line_total + SumLineTotal(Tail(edited))

\* table path: totals from edited_df
TableTotals(edited) ==
    [shown |-> TRUE, items |-> Len(edited), qty |-> SumQty(NewRows(edited)),
     amount |-> SumLineTotal(edited)]

\* "with tab2:" of one script run.  rerun = the run ended in st.rerun().
\* A line with empty cells makes int(row["stock"]) raise in the card path
\* (nothing after it runs) and makes new_rows != req_rows always true in the
\* table path (nan != nan), so the totals and the Clear button are not reached.
TabTwo(cart, mv, ed, clear_pressed) ==
    IF cart = <<>> THEN [rows |-> cart, totals |-> NoTotals, rerun |-> FALSE]
    ELSE IF mv
    THEN IF HasMissing(cart)
         THEN [rows |-> cart, totals |-> NoTotals, rerun |-> FALSE]
         ELSE LET updated_rows == CardUpdatedRows(ReqDf(cart), ed)
              IN  IF clear_pressed
                  THEN [rows |-> <<>>, totals |-> NoTotals, rerun |-> TRUE]
                  ELSE [rows |-> updated_rows, totals |-> CardTotals(updated_rows),
                        rerun |-> FALSE]
    ELSE LET edited_df == EditedDf(ReqDf(cart), ed)
             new_rows  == NewRows(edited_df)
         IN  IF new_rows # cart \/ HasMissing(new_rows)
             THEN [rows |-> new_rows, totals |-> NoTotals, rerun |-> TRUE]
             ELSE IF clear_pressed
                  THEN [rows |-> <<>>, totals |-> NoTotals, rerun |-> TRUE]
                  ELSE [rows |-> cart, totals |-> TableTotals(edited_df),
                        rerun |-> FALSE]

\* the run st.rerun() starts: no button is pressed, the editor is fresh
Settle(cart, mv) ==
    LET t == TabTwo(cart, mv, NoEdit, FALSE)
    IN  IF t.rerun THEN [rows |-> t.rows, totals |-> NoTotals, rerun |-> TRUE]
        ELSE t

-----------------------------------------------------------------------------
(* Session state and one script run                                         *)

VARIABLES
    disk,            \* content of MASTER_FILE: "none" or a name in FileNames
    df,              \* st.session_state["df"]
    colmap,          \* st.session_state["colmap"]
    uploaded_name,   \* st.session_state["uploaded_name"]
    request_rows,    \* st.session_state["request_rows"]
    mobile_view,     \* the "Mobile-friendly lists" toggle
    search_value,    \* the search box, stripped
    spare_filtered,  \* rows listed under the search box
    notice,          \* what the Add to List handler reported
    hits,            \* the candidates listed by "Found N matches"
    match_index,     \* value of the "Select row number" input sent with the run
    sidebar_msg,     \* what the Replace handler reported
    totals,          \* the Items / Total Qty / Total Amount metrics
    page,            \* how the last run ended before the tabs
    pressed          \* the st.button that was True in the last run

vars == <<disk, df, colmap, uploaded_name, request_rows, mobile_view,
          search_value, spare_filtered, notice, hits, match_index,
          sidebar_msg, totals, page, pressed>>

MASTER_FILE == "stocks1.xlsx"
ADMIN_PASSWORD == "makita123"
Passwords == {"", ADMIN_PASSWORD, "letmein"}

NoDf == [loaded |-> FALSE, rows |-> <<>>]

\* text typed into the search box
Queries ==
    { <<>>,
      <<"m","1"," ">>,
      <<"1","0","0">>,
      <<"g","u">>,
      <<"M","1"," ","-"," ","b","l">> }

\* load_master_to_session(): res is "false" (no file), "raise" (ValueError
\* from build_column_map) or "true" with the values assigned to the session.
\* MASTER_FILE always ends in .xlsx, so the suffix test takes read_excel.
LoadSheet(sheet, cm) ==
    IF MissingRequired(cm)
    THEN [res |-> "raise", df |-> NoDf, colmap |-> {}, uploaded_name |-> ""]
    ELSE [res |-> "true",
          df |-> [loaded |-> TRUE, rows |-> build_app_df(sheet, cm)],
          colmap |-> cm, uploaded_name |-> MASTER_FILE]

load_master_to_session(d) ==
    IF d = "none"
    THEN [res |-> "false", df |-> NoDf, colmap |-> {}, uploaded_name |-> ""]
    ELSE CHOOSE r \in UNION { {LoadSheet(sheet, cm) : cm \in {ResolveColumns(sheet.headers)}} :
                              sheet \in {Sheet(d)} } : TRUE

\* Variant of ReplaceOutcome: a successful reload leaves the request list alone
ReplaceKeepsCart(up, r) ==
    CASE r.res = "true" ->
            [disk |-> up, df |-> r.df, colmap |-> r.colmap,
             uploaded_name |-> r.uploaded_name, rows |-> request_rows,
             msg |-> "updated"]
      [] r.res = "false" ->
            [disk |-> up, df |-> df, colmap |-> colmap,
             uploaded_name |-> uploaded_name, rows |-> request_rows,
             msg |-> "could_not_load"]
      [] r.res = "raise" ->
            [disk |-> up, df |-> df, colmap |-> colmap,
             uploaded_name |-> uploaded_name, rows |-> request_rows,
             msg |-> "load_error"]

\* Variant of ReplaceOutcome: the request list is emptied before the load
ReplaceClearsFirst(up, r) ==
    CASE r.res = "true" ->
            [disk |-> up, df |-> r.df, colmap |-> r.colmap,
             uploaded_name |-> r.uploaded_name, rows |-> <<>>, msg |-> "updated"]
      [] r.res = "false" ->
            [disk |-> up, df |-> df, colmap |-> colmap,
             uploaded_name |-> uploaded_name, rows |-> <<>>,
             msg |-> "could_not_load"]
      [] r.res = "raise" ->
            [disk |-> up, df |-> df, colmap |-> colmap,
             uploaded_name |-> uploaded_name, rows |-> <<>>,
             msg |-> "load_error"]

\* the body of "if st.sidebar.button('Replace master stock file'):" once
\* MASTER_FILE holds upload up and load_master_to_session() ended as r
ReplaceOutcome(up, r) ==
    CASE r.res = "true" ->
            [disk |-> up, df |-> r.df, colmap |-> r.colmap,
             uploaded_name |-> r.uploaded_name, rows |-> <<>>, msg |-> "updated"]
      [] r.res = "false" ->
            [disk |-> up, df |-> df, colmap |-> colmap,
             uploaded_name |-> uploaded_name, rows |-> request_rows,
             msg |-> "could_not_load"]
      [] r.res = "raise" ->
            [disk |-> up, df |-> df, colmap |-> colmap,
             uploaded_name |-> uploaded_name, rows |-> request_rows,
             msg |-> "load_error"]

\* the sidebar of one script run
Sidebar(trig, up) ==
    IF trig = "replace"
    THEN CHOOSE o \in {ReplaceOutcome(up, r) : r \in {load_master_to_session(up)}} : TRUE
    ELSE [disk |-> disk, df |-> df, colmap |-> colmap,
          uploaded_name |-> uploaded_name, rows |-> request_rows, msg |-> "none"]

\* "Load master file if needed" when df is None and the load ended as r: the
\* call is outside any try, so a raise ends the run
LoadOutcome(sb, r) ==
    CASE r.res = "true" ->
            [df |-> r.df, colmap |-> r.colmap, uploaded_name |-> r.uploaded_name,
             page |-> "ok"]
      [] r.res = "false" ->
            [df |-> sb.df, colmap |-> sb.colmap, uploaded_name |-> sb.uploaded_name,
             page |-> "no_file"]
      [] r.res = "raise" ->
            [df |-> sb.df, colmap |-> sb.colmap, uploaded_name |-> sb.uploaded_name,
             page |-> "exception"]

LoadIfNeeded(sb) ==
    IF sb.df.loaded
    THEN [df |-> sb.df, colmap |-> sb.colmap, uploaded_name |-> sb.uploaded_name,
          page |-> "ok"]
    ELSE CHOOSE o \in {LoadOutcome(sb, r) : r \in {load_master_to_session(sb.disk)}} : TRUE

\* Variant of AddOutcome: several matches add the first candidate by default
AddOutcomeFirst(cart, h) ==
    CASE Len(h) = 0 -> [rows |-> cart, notice |-> "not_found", hits |-> <<>>]
      [] Len(h) = 1 -> [rows |-> add_request_row(cart, h[1]), notice |-> "added",
                        hits |-> <<>>]
      [] OTHER      -> [rows |-> add_request_row(cart, h[1]), notice |-> "choose",
                        hits |-> h]

\* "if add_button and search_value:" once hits is computed
AddOutcome(cart, h) ==
    CASE Len(h) = 0 -> [rows |-> cart, notice |-> "not_found", hits |-> <<>>]
      [] Len(h) = 1 -> [rows |-> add_request_row(cart, h[1]), notice |-> "added",
                        hits |-> <<>>]
      [] OTHER      -> [rows |-> cart, notice |-> "choose", hits |-> h]

\* "with tab1:" of one script run
TabOne(table, sv, add_button, cart) ==
    CHOOSE o \in
        { [rows |-> a.rows, notice |-> a.notice, hits |-> a.hits, filtered |-> f] :
            a \in { IF add_button /\ sv # <<>>
                    THEN CHOOSE x \in {AddOutcome(cart, h) : h \in {AddHits(table, sv)}} : TRUE
                    ELSE [rows |-> cart, notice |-> "none", hits |-> <<>>] },
            f \in { IF sv # <<>> THEN LiveFilter(table, sv) ELSE <<>> } } : TRUE

\* the interactions that are button presses
Buttons == {"replace", "add", "confirm", "clear"}

\* One interaction: the script run it starts and, when that run ends in
\* st.rerun(), the run that follows.  notice, hits and sidebar_msg are what
\* the triggered run reported.
Script(trig, sv, mv, up, ed, mi) ==
    \E sb \in {Sidebar(trig, up)} :
    \E ld \in {LoadIfNeeded(sb)} :
        /\ pressed' = IF trig \in Buttons THEN trig ELSE "none"
        /\ disk' = sb.disk
        /\ df' = ld.df
        /\ colmap' = ld.colmap
        /\ uploaded_name' = ld.uploaded_name
        /\ sidebar_msg' = sb.msg
        /\ page' = ld.page
        /\ mobile_view' = mv
        /\ search_value' = sv
        /\ match_index' = mi
        /\ IF ld.page # "ok"
           THEN /\ request_rows' = sb.rows
                /\ spare_filtered' = <<>>
                /\ notice' = "none"
                /\ hits' = <<>>
                /\ totals' = NoTotals
           ELSE \E t1 \in {TabOne(ld.df.rows, sv, trig = "add", sb.rows)} :
                \E t2 \in {TabTwo(t1.rows, mv, ed, trig = "clear")} :
                    /\ request_rows' = t2.rows
                    /\ spare_filtered' = t1.filtered
                    /\ notice' = t1.notice
                    /\ hits' = t1.hits
                    /\ totals' = IF t2.rerun THEN Settle(t2.rows, mv).totals
                                 ELSE t2.totals

Init ==
    /\ disk \in {"none"} \cup FileNames
    /\ df = NoDf
    /\ colmap = {}
    /\ uploaded_name = ""
    /\ request_rows = <<>>
    /\ mobile_view = TRUE
    /\ search_value = <<>>
    /\ spare_filtered = <<>>
    /\ notice = "none"
    /\ hits = <<>>
    /\ match_index = 0
    /\ sidebar_msg = "none"
    /\ totals = NoTotals
    /\ page = "start"
    /\ pressed = "none"

\* Opening the page, or an interaction that only re-runs the script
\* (typing the password, choosing a file in the uploader)
PlainRun ==
    Script("none", search_value, mobile_view, "none", NoEdit, 0)

ToggleMobileView ==
    /\ page # "start"
    /\ Script("toggle", search_value, ~mobile_view, "none", NoEdit, 0)

\* "Replace master stock file": offered when is_admin and a file is chosen
ReplaceMaster(pwd, f) ==
    /\ page # "start"
    /\ pwd = ADMIN_PASSWORD
    /\ Script("replace", search_value, mobile_view, f, NoEdit, 0)

TypeQuery(raw) ==
    /\ page = "ok"
    /\ Script("search", Strip(raw), mobile_view, "none", NoEdit, 0)

\* "Add to List"
AddToList ==
    /\ page = "ok"
    /\ Len(request_rows) < MaxCart
    /\ Script("add", search_value, mobile_view, "none", NoEdit, 0)

\* "Confirm Add Selected Match" with index i in the number input: the button
\* lives inside "if add_button and search_value:", and add_button is False in
\* the run this press starts.  The button is on the page when the run that
\* drew it was the last one (the table path re-runs the script for ever over
\* a line with empty cells).
ConfirmAdd(i) ==
    /\ page = "ok"
    /\ notice = "choose" /\ hits # <<>>
    /\ mobile_view \/ ~HasMissing(request_rows)
    /\ i \in 0 .. Len(hits) - 1
    /\ Script("confirm", search_value, mobile_view, "none", NoEdit, i)

\* card path: a Qty number_input is changed (the inputs above the first line
\* with empty cells are the ones drawn)
CardQtyEdit(i, q) ==
    /\ page = "ok" /\ mobile_view
    /\ i \in DOMAIN request_rows
    /\ \A j \in 1 .. i : ~request_rows[j].missing
    /\ Script("qty", search_value, mobile_view, "none",
              [kind |-> "qty", i |-> i, q |-> q], 0)

\* table path: a change in st.data_editor
TableEdit(ed) ==
    /\ page = "ok" /\ ~mobile_view
    /\ request_rows # <<>>
    /\ ed.kind \in {"qty", "blank", "insert", "delete"}
    /\ ed.kind = "insert" => Len(request_rows) < MaxCart /\ ed.i = 0
    /\ ed.kind # "insert" => ed.i \in DOMAIN request_rows
    /\ ed.kind # "qty" => ed.q = 0
    /\ Script(ed.kind, search_value, mobile_view, "none", ed, 0)

\* "Clear Request List": drawn after the totals
ClearRequestList ==
    /\ page = "ok"
    /\ totals.shown
    /\ Script("clear", search_value, mobile_view, "none", NoEdit, 0)

\* changes the table editor offers: Qty cells, and rows (num_rows="dynamic")
Edits == [kind : {"qty", "blank", "insert", "delete"}, i : 0 .. MaxCart, q : QtyInputs]

\* the Qty-cell changes among them
QtyEdits == {ed \in Edits : ed.kind \in {"qty", "blank"}}

Next ==
    \/ PlainRun
    \/ ToggleMobileView
    \/ \E pwd \in Passwords, f \in FileNames : ReplaceMaster(pwd, f)
    \/ \E raw \in Queries : TypeQuery(raw)
    \/ AddToList
    \/ \E i \in 0 .. MaxCart : ConfirmAdd(i)
    \/ \E i \in 1 .. MaxCart, q \in QtyInputs : CardQtyEdit(i, q)
    \/ \E ed \in Edits : TableEdit(ed)
    \/ ClearRequestList

Spec == Init /\ [][Next]_vars

\* Sessions in which the request list is only added to, edited in its Qty
\* cells, cleared and reloaded
NextEdit ==
    \/ PlainRun
    \/ ToggleMobileView
    \/ \E pwd \in Passwords, f \in FileNames : ReplaceMaster(pwd, f)
    \/ \E raw \in Queries : TypeQuery(raw)
    \/ AddToList
    \/ \E i \in 0 .. MaxCart : ConfirmAdd(i)
    \/ \E i \in 1 .. MaxCart, q \in QtyInputs : CardQtyEdit(i, q)
    \/ \E ed \in QtyEdits : TableEdit(ed)
    \/ ClearRequestList

SpecEdit == Init /\ [][NextEdit]_vars

-----------------------------------------------------------------------------
(* Properties                                                               *)

UpperChars == <<"A","B","C","D","E","F","G","H","I","J","K","L","M",
                "N","O","P","Q","R","S","T","U","V","W","X","Y","Z">>

\* a and b are the same character up to letter case
SameLetter(a, b) ==
    a = b \/ \E i \in DOMAIN UpperChars : {a, b} = {UpperChars[i], LowerChars[i]}

\* p occurs in s, letter case ignored, every character taken literally
OccursIn(p, s) ==
    \E k \in 0 .. Len(s) - Len(p) : \A j \in 1 .. Len(p) : SameLetter(s[k + j], p[j])

\* s begins with p, letter case ignored
BeginsWith(p, s) ==
    Len(p) <= Len(s) /\ \A j \in 1 .. Len(p) : SameLetter(s[j], p[j])

\* positions of the separator " - " in q
SepAt(q) == {k \in 1 .. Len(q) - 2 : q[k] = " " /\ q[k + 1] = "-" /\ q[k + 2] = " "}
FirstSep(q) == CHOOSE k \in SepAt(q) : \A m \in SepAt(q) : k <= m
Before(q) == [j \in 1 .. FirstSep(q) - 1 |-> q[j]]
After(q)  == [j \in 1 .. Len(q) - FirstSep(q) - 2 |-> q[FirstSep(q) + 2 + j]]

\* seq lists exactly the rows of table whose positions are in keep, in table order
ListsInOrder(seq, table, keep) ==
    /\ Len(seq) = Cardinality(keep)
    /\ \E f \in [DOMAIN seq -> DOMAIN table] :
          /\ \A a, b \in DOMAIN seq : a < b => f[a] < f[b]
          /\ {f[a] : a \in DOMAIN seq} = keep
          /\ \A a \in DOMAIN seq : seq[a] = table[f[a]]

\* rows of the table the add-to-list rule selects for query q
AddMatches(q) ==
    IF SepAt(q) # {}
    THEN {i \in DOMAIN df.rows :
            /\ OccursIn(Before(q), df.rows[i].model)
            /\ OccursIn(After(q), df.rows[i].material_description)}
    ELSE {i \in DOMAIN df.rows :
            \/ BeginsWith(q, df.rows[i].model)
            \/ OccursIn(q, df.rows[i].material_description)}

\* line is a copy of stock record rec with qty 1
CopyOf(line, rec) ==
    /\ line.model = rec.model
    /\ line.material_description = rec.material_description
    /\ line.shrm = rec.shrm /\ line.home = rec.home
    /\ line.stock = rec.stock /\ line.used_spares = rec.used_spares
    /\ line.price = rec.price
    /\ line.qty = 1

\* C1: the run started by an "Add to List" press with a non-empty query
\* changes the request list iff the add-to-list rule selects exactly one
\* record: then the list afterwards is the list before with one line appended,
\* a copy of that record with qty 1; with no match (not-found reported) or
\* several (their number reported) the list is what it was.
C1_AddChangesCartIffOneMatch ==
    [][(pressed' = "add" /\ search_value # <<>>) =>
        /\ Cardinality(AddMatches(search_value)) = 1 =>
              /\ notice' = "added"
              /\ Len(request_rows') = Len(request_rows) + 1
              /\ SubSeq(request_rows', 1, Len(request_rows)) = request_rows
              /\ \A i \in AddMatches(search_value) :
                    CopyOf(request_rows'[Len(request_rows')], df.rows[i])
        /\ Cardinality(AddMatches(search_value)) = 0 =>
              notice' = "not_found" /\ request_rows' = request_rows
        /\ Cardinality(AddMatches(search_value)) > 1 =>
              /\ notice' = "choose"
              /\ Len(hits') = Cardinality(AddMatches(search_value))
              /\ request_rows' = request_rows
        /\ request_rows' # request_rows <=> Cardinality(AddMatches(search_value)) = 1
      ]_vars

\* a press that appended a second line to the list
C1_Witness ==
    pressed = "add" /\ notice = "added" /\ Len(request_rows) = 2

\* C2: after "Add to List" found N > 1 candidates, pressing "Confirm Add
\* Selected Match" with index i in 0..N-1 appends the i-th candidate to the
\* request list as a new line with qty 1.
C2_ConfirmAppendsSelected ==
    [][pressed' = "confirm" =>
        /\ match_index' \in 0 .. Len(hits) - 1
        /\ request_rows' = Append(request_rows, RequestLine(hits[match_index' + 1]))
      ]_vars

\* C3: after "Clear Request List", and after a master-file replacement whose
\* reload succeeded, the request list is empty.
C3_EmptyAfterClearOrReload ==
    /\ pressed = "clear" => request_rows = <<>>
    /\ sidebar_msg = "updated" => request_rows = <<>>

\* the state a Clear press leaves (the button is drawn only under a non-empty list)
C3_Witness ==
    pressed = "clear" /\ request_rows = <<>> /\ ~totals.shown /\ df.loaded

\* C4: when the file put in place by "Replace master stock file" does not
\* load (model/description columns unresolvable), the error is reported and
\* the session's table, column map and request list are what they were.
C4_FailedReloadKeepsSession ==
    [][(pressed' = "replace" /\ SchemaError(Sheet(disk').headers)) =>
        /\ sidebar_msg' = "load_error"
        /\ df' = df /\ colmap' = colmap /\ request_rows' = request_rows
      ]_vars

\* a failed replacement in a session that holds a table and a non-empty list
C4_Witness ==
    /\ pressed = "replace" /\ sidebar_msg = "load_error" /\ disk = "nodesc"
    /\ df.loaded /\ request_rows # <<>>

RECURSIVE QtyUpTo(_, _)
QtyUpTo(cart, k) == IF k = 0 THEN 0 ELSE QtyUpTo(cart, k - 1) + cart[k].qty

RECURSIVE AmountUpTo(_, _)
AmountUpTo(cart, k) ==
    IF k = 0 THEN 0 ELSE AmountUpTo(cart, k - 1) + cart[k].price * cart[k].qty

C7_ViewsConverge ==
    [][(mobile_view' = mobile_view /\ pressed' = "none"
            /\ request_rows' # request_rows) =>
        \E i \in DOMAIN request_rows, q \in QtyInputs :
            /\ request_rows' =
                  TabTwo(request_rows, TRUE, [kind |-> "qty", i |-> i, q |-> q], FALSE).rows
            /\ request_rows' =
                  TabTwo(request_rows, FALSE, [kind |-> "qty", i |-> i, q |-> q], FALSE).rows
      ]_vars

\* rows of the table the live-filter rule selects for query q
FilterMatches(q) ==
    IF SepAt(q) # {}
    THEN {i \in DOMAIN df.rows :
            /\ OccursIn(Before(q), df.rows[i].model)
            /\ OccursIn(After(q), df.rows[i].material_description)}
    ELSE {i \in DOMAIN df.rows :
            \/ OccursIn(q, df.rows[i].model)
            \/ OccursIn(q, df.rows[i].material_description)}

\* C8: for a non-empty query the rows listed under the search box are exactly
\* the records whose model contains the part before " - " AND whose
\* description contains the part after it, or, without the separator, whose
\* model OR description contains the query; case-insensitive, literal, in
\* table order.
C8_LiveFilterRule ==
    (page = "ok" /\ search_value # <<>>) =>
        ListsInOrder(spare_filtered, df.rows, FilterMatches(search_value))

\* a query found inside a model code but not at its start
C8_Witness ==
    /\ page = "ok" /\ search_value = <<"1","0","0">>
    /\ Len(spare_filtered) = 1 /\ Len(df.rows) = 2

\* C9: when an optional column is absent from the column map, every stock
\* record carries the default: shrm "N-A", home "N-A", stock 0, used_spares 0,
\* price 0.
C9_AbsentColumnDefaults ==
    df.loaded =>
        \A i \in DOMAIN df.rows :
            /\ ~InMap(colmap, "shrm") => df.rows[i].shrm = NA
            /\ ~InMap(colmap, "home") => df.rows[i].home = NA
            /\ ~InMap(colmap, "stock") => df.rows[i].stock = 0
            /\ ~InMap(colmap, "used_spares") => df.rows[i].used_spares = 0
            /\ ~InMap(colmap, "price") => df.rows[i].price = 0

\* rows' differs from rows in the qty of exactly one line
OneQtyChanged(rows, rows2) ==
    /\ Len(rows2) = Len(rows)
    /\ \E i \in DOMAIN rows :
          /\ rows2[i] = [rows[i] EXCEPT !.qty = rows2[i].qty]
          /\ \A j \in DOMAIN rows : j # i => rows2[j] = rows[j]

\* C10: the request list changes only by add-to-list (one line appended), by
\* Clear, by a successful reload, or by a quantity edit that changes the qty
\* of one line and nothing else: nothing inserts, deletes or reorders lines.
C10_ListChangesOnlyByAddEditClear ==
    [][request_rows' # request_rows =>
        \/ pressed' = "add" /\ Len(request_rows') = Len(request_rows) + 1
              /\ SubSeq(request_rows', 1, Len(request_rows)) = request_rows
        \/ pressed' = "clear" /\ request_rows' = <<>>
        \/ sidebar_msg' = "updated" /\ request_rows' = <<>>
        \/ pressed' = "none" /\ OneQtyChanged(request_rows, request_rows')
      ]_vars

====
